---- MODULE Spec2Model ----
(***************************************************************************)
(* Last Chair Game, V2 contract (src/unnamed/part_000): the match / round  *)
(* lifecycle, the scoring function and the settlement arithmetic.          *)
(*                                                                         *)
(* One match_id is modelled.  The contract keys every storage entry by     *)
(* match_id and no entry point reads or writes an entry of another id, so  *)
(* the records of one id evolve independently of all others.               *)
(*                                                                         *)
(* Every entry point is one atomic step (a Starknet transaction): a        *)
(* failed read, assert or call reverts the whole transaction, so a         *)
(* reverted call writes nothing: storage, token balances and the event log *)
(* are as they were, and the caller gets the error.  Each handler has an   *)
(* operator <handler>_error giving the first step that fails (or OK) for a *)
(* call in the current state; the handler's action applies its writes when *)
(* that is OK and writes nothing otherwise.  The variable last holds the   *)
(* most recent call and what came of it: entry point, caller, arguments,   *)
(* the error it reverted with or OK, the verifier's verdict, the event.    *)
(*                                                                         *)
(* Storage that was never written holds 0 in every felt.  An address or a  *)
(* number reads as 0.  MatchState and RoundState derive starknet::Store    *)
(* without a #[default] variant, so their variants are stored as 1, 2, 3,  *)
(* ... and the stored 0 is no variant: reading a Match or Round record     *)
(* from a slot that was never written fails with 'Incorrect index:'.       *)
(*                                                                         *)
(* Integer widths: round scores are at most 80 and a round is scored once, *)
(* so the u32 sums and score * 10000 stay far below 2^32; round + 1 is at  *)
(* most 4 in u8; the stakes offered keep stake * 2 far below 2^256.  The   *)
(* u256 subtractions of settle_match can underflow and are checked.        *)
(***************************************************************************)
EXTENDS Integers, Sequences, FiniteSets, TLC

VARIABLES
    matches,        \* Storage.matches[match_id]: the Match record
    rounds,         \* Storage.rounds[(match_id, r)], r in 1..3: the Round records
    commitments,    \* Storage.commitments[(match_id, player, r)]
    balances,       \* STRK balance of every caller (the ERC20 ledger)
    custody,        \* STRK balance of the game contract
    last,           \* the most recent call and its outcome
    calc            \* input and result of one settlement computation (SpecPayout)

vars == <<matches, rounds, commitments, balances, custody, last, calc>>

store == <<matches, rounds, commitments>>

ledger == <<balances, custody>>

-----------------------------------------------------------------------------
(* Program constants *)

CHAIRS == 12

ROUNDS == 3

SCORE_SCALE == 4

TRAP_BONUS_SCALED == 32

TRAP_DEBUFF_SCALE == 1

SAFE_SCALE == 4

ERROR_NOT_PLAYER == "Not a player"

ERROR_WRONG_STATE == "Wrong state"

ERROR_ALREADY_STARTED == "Already started"

ERROR_STAKE_MISMATCH == "Stake mismatch"

ERROR_ALREADY_REVEALED == "Already revealed"

ERROR_ROUND_NOT_READY == "Both reveals needed"

ERROR_INVALID_PROOF == "Invalid ZK proof"

ERROR_INVALID_POSITION == "Invalid position"

ERROR_INVALID_TRAPS == "Invalid traps"

ERROR_MATCH_NOT_FOUND == "Match not found"

ERROR_ROUND_NOT_SETTLED == "Round not settled"

\* Failures raised outside the contract's own asserts.
ERROR_LEDGER == "ERC20: insufficient balance"

ERROR_VERIFIER == "verifier reverted"

ERROR_U8 == "Option::unwrap failed."

ERROR_SUB == "u256_sub Overflow"

\* The derived Store read of an enum whose stored index is no variant.
ERROR_STORE_READ == "Incorrect index:"

OK == "ok"

-----------------------------------------------------------------------------
(* Bounds and inputs of the model *)

\* The two stakes a first player may choose; 0 is offered as well.
StakeLo == 100

StakeHi == 150

\* Round numbers offered to submit_reveal and settle_round: 1..MaxRoundArg.
MaxRoundArg == 4

\* Tokens the contract's address holds from the start (anyone may transfer
\* tokens to it).
OtherCustody == 500

\* contract_address_const::<0>()
ZeroAddress == 0

\* Caller 1 can cover either stake, caller 2 exactly the low one, caller 3 none.
Callers == {1, 2, 3}

InitialBalance(c) == IF c = 1 THEN 2 * StakeHi ELSE IF c = 2 THEN StakeLo ELSE StakeLo - 1

Stakes == {0, StakeLo, StakeHi}

RoundArgs == 1..MaxRoundArg

\* The three commitments (c1, c2, c3) a caller supplies to start_match.
CommitmentsOf(c) == <<10 * c + 1, 10 * c + 2, 10 * c + 3>>

\* Verdicts of the proof verifier on a credential: it returns Some(public
\* inputs), returns None, or reverts.
VerdictSome == "Some"

VerdictNone == "None"

VerdictRevert == "revert"

NotCalled == "not called"

\* proof_with_hints: a span of felts, <<proof body, ..., chair, trap1, trap2, trap3>>.
\* The proof body is one felt here, and decides the verifier's verdict.
PayloadP == <<VerdictSome, 1, 12, 2, 3>>

PayloadQ == <<VerdictSome, 12, 4, 5, 6>>

PayloadPRejected == <<VerdictNone, 1, 12, 2, 3>>

PayloadQReverts == <<VerdictRevert, 12, 4, 5, 6>>

PayloadShort == <<VerdictSome, 1, 2>>

PayloadChairZero == <<VerdictSome, 0, 1, 2, 3>>

PayloadTrapHigh == <<VerdictSome, 1, 2, 3, 13>>

PayloadTrapsEqual == <<VerdictSome, 1, 2, 2, 3>>

PayloadChairTrapped == <<VerdictSome, 3, 1, 2, 3>>

PayloadNotU8 == <<VerdictSome, 300, 1, 2, 3>>

PayloadChairHigh == <<VerdictSome, 13, 1, 2, 3>>

PayloadTrapZero == <<VerdictSome, 1, 0, 2, 3>>

\* Malformed credentials on which the verifier, if asked, reverts.
PayloadTrapsEqualReverts == <<VerdictRevert, 1, 2, 2, 3>>

PayloadChairTrappedReverts == <<VerdictRevert, 2, 1, 2, 3>>

\* The credentials offered to submit_reveal.
Payloads == {PayloadP, PayloadQ, PayloadPRejected, PayloadQReverts, PayloadChairTrapped}

\* Every kind of malformed credential.
InvalidPayloads ==
    { PayloadShort, PayloadChairZero, PayloadTrapHigh, PayloadTrapsEqual,
      PayloadChairTrapped, PayloadNotU8, PayloadChairHigh, PayloadTrapZero,
      PayloadTrapsEqualReverts, PayloadChairTrappedReverts }

AllPayloads == Payloads \cup InvalidPayloads

-----------------------------------------------------------------------------
(* Types *)

MatchState == {"Waiting", "Active", "Finished"}

RoundState == {"Pending", "RevealedA", "RevealedB", "Settled"}

\* The stored index 0 of an enum field: what a never-written slot holds.  It
\* is the index of no variant (Waiting, Active, Finished are stored as 1, 2,
\* 3 and Pending, RevealedA, RevealedB, Settled as 1, 2, 3, 4).
ZeroIndex == "index 0"

\* What a never-written matches slot holds.
EmptyMatch ==
    [ player_a |-> ZeroAddress, player_b |-> ZeroAddress, stake |-> 0,
      current_round |-> 0, state |-> ZeroIndex, score_a |-> 0, score_b |-> 0 ]

\* What a never-written rounds slot holds.
UnwrittenRound ==
    [ commitment_a |-> 0, commitment_b |-> 0,
      chair_a |-> 0, trap1_a |-> 0, trap2_a |-> 0, trap3_a |-> 0,
      chair_b |-> 0, trap1_b |-> 0, trap2_b |-> 0, trap3_b |-> 0,
      state |-> ZeroIndex, score_a |-> 0, score_b |-> 0 ]

\* empty_round of start_match
empty_round ==
    [ commitment_a |-> 0, commitment_b |-> 0,
      chair_a |-> 0, trap1_a |-> 0, trap2_a |-> 0, trap3_a |-> 0,
      chair_b |-> 0, trap1_b |-> 0, trap2_b |-> 0, trap3_b |-> 0,
      state |-> "Pending", score_a |-> 0, score_b |-> 0 ]

NoEvent == [name |-> "none"]

\* What self.rounds.read((match_id, round)) finds in the slot, for any u8
\* round: only the slots of rounds 1..3 are ever written.
ReadRound(round) == IF round \in 1..ROUNDS THEN rounds[round] ELSE UnwrittenRound

\* Whether self.matches.read(match_id) returns a Match: the stored state
\* index is a variant's.  Otherwise the read fails.
MatchReadable == matches.state \in MatchState

\* Whether self.rounds.read((match_id, round)) returns a Round.
RoundReadable(round) == ReadRound(round).state \in RoundState

\* What last holds after a call: the call and what came of it.
Outcome(op, caller, stake, round, proof_with_hints, error, verdict, event) ==
    [ op |-> op, caller |-> caller, stake |-> stake, round |-> round,
      proof_with_hints |-> proof_with_hints, error |-> error,
      verifier |-> verdict, event |-> event ]

-----------------------------------------------------------------------------
(* Collaborators *)

\* The verifier's answer to a credential: Some(public inputs), None, or a revert.
VerifierVerdict(proof_with_hints) == proof_with_hints[1]

\* token.transfer_from(caller, contract, amount) succeeds iff the payer can cover it.
CanLock(caller, amount) == balances[caller] >= amount

-----------------------------------------------------------------------------
(* Internal helpers *)

is_trapped(pos, t1, t2, t3) == pos = t1 \/ pos = t2 \/ pos = t3

\* Faulty variant of calculate_round_score: a trapped player gets no bonus.
calculate_round_score_bonus_if_safe(chair_a, trap1_b, trap2_b, trap3_b, chair_b, trap1_a, trap2_a, trap3_a) ==
    LET a_trapped == is_trapped(chair_a, trap1_b, trap2_b, trap3_b)
        b_trapped == is_trapped(chair_b, trap1_a, trap2_a, trap3_a)
        scale_a == IF a_trapped THEN TRAP_DEBUFF_SCALE ELSE SAFE_SCALE
        scale_b == IF b_trapped THEN TRAP_DEBUFF_SCALE ELSE SAFE_SCALE
        trap_bonus_a == IF b_trapped /\ ~a_trapped THEN TRAP_BONUS_SCALED ELSE 0
        trap_bonus_b == IF a_trapped /\ ~b_trapped THEN TRAP_BONUS_SCALED ELSE 0
    IN  <<chair_a * scale_a + trap_bonus_a, chair_b * scale_b + trap_bonus_b>>

calculate_round_score(chair_a, trap1_b, trap2_b, trap3_b, chair_b, trap1_a, trap2_a, trap3_a) ==
    LET a_trapped == is_trapped(chair_a, trap1_b, trap2_b, trap3_b)
        b_trapped == is_trapped(chair_b, trap1_a, trap2_a, trap3_a)
        risk_a == chair_a
        risk_b == chair_b
        scale_a == IF a_trapped THEN TRAP_DEBUFF_SCALE ELSE SAFE_SCALE
        scale_b == IF b_trapped THEN TRAP_DEBUFF_SCALE ELSE SAFE_SCALE
        trap_bonus_a == IF b_trapped THEN TRAP_BONUS_SCALED ELSE 0
        trap_bonus_b == IF a_trapped THEN TRAP_BONUS_SCALED ELSE 0
    IN  <<risk_a * scale_a + trap_bonus_a, risk_b * scale_b + trap_bonus_b>>

\* split_a_bps of settle_round and settle_match
SplitBps(score_a, score_b) ==
    LET total == score_a + score_b
    IN  IF total = 0 THEN 5000 ELSE (score_a * 10000) \div total

-----------------------------------------------------------------------------
(* start_match *)

\* The first failing check of start_match, in the order of the code, or OK.
start_match_error(caller, stake) ==
    LET m == matches
        is_new == m.player_a = ZeroAddress
    IN  IF ~MatchReadable THEN ERROR_STORE_READ
        ELSE IF is_new
        THEN IF ~(stake > 0) THEN ERROR_WRONG_STATE
             ELSE IF ~CanLock(caller, stake) THEN ERROR_LEDGER
             ELSE OK
        ELSE IF m.state # "Waiting" THEN ERROR_ALREADY_STARTED
             ELSE IF m.player_a = caller THEN ERROR_ALREADY_STARTED
             ELSE IF m.stake # stake THEN ERROR_STAKE_MISMATCH
             ELSE IF ~CanLock(caller, stake) THEN ERROR_LEDGER
             ELSE IF ~(\A r \in 1..ROUNDS : RoundReadable(r)) THEN ERROR_STORE_READ
             ELSE OK

\* The Match written by the first caller.
new_match(caller, stake) ==
    [ player_a |-> caller, player_b |-> ZeroAddress, stake |-> stake,
      current_round |-> 1, state |-> "Waiting", score_a |-> 0, score_b |-> 0 ]

\* The Match written by the second caller.
activated_match(m, caller) ==
    [ player_a |-> m.player_a, player_b |-> caller, stake |-> m.stake,
      current_round |-> 1, state |-> "Active", score_a |-> 0, score_b |-> 0 ]

\* The Round records after the second caller's commitments are baked in.
\* self.commitments.write((match_id, caller, r), c_r) for r = 1, 2, 3
stored_commitments(caller, c) ==
    [ k \in DOMAIN commitments |->
        IF k[1] = caller THEN c[k[2]] ELSE commitments[k] ]

\* The Round records after the second caller's commitments are baked in:
\* commitment_a is read back from the side table, commitment_b is the argument.
baked_rounds(m, caller, c) ==
    LET written == stored_commitments(caller, c)
    IN  [ r \in 1..ROUNDS |->
            [ rounds[r] EXCEPT !.commitment_a = written[<<m.player_a, r>>],
                               !.commitment_b = c[r] ] ]

start_match(caller, stake, c) ==
    LET m == matches
        err == start_match_error(caller, stake)
    IN  IF err # OK
        THEN /\ UNCHANGED <<store, ledger>>
             /\ last' = Outcome("start_match", caller, stake, 0, <<>>, err,
                                NotCalled, NoEvent)
        ELSE /\ balances' = [balances EXCEPT ![caller] = @ - stake]
             /\ custody' = custody + stake
             /\ commitments' = stored_commitments(caller, c)
             /\ IF m.player_a = ZeroAddress
                THEN /\ matches' = new_match(caller, stake)
                     /\ rounds' = [r \in 1..ROUNDS |-> empty_round]
                     /\ last' = Outcome("start_match", caller, stake, 0, <<>>, OK,
                                        NotCalled,
                                        [ name |-> "PlayerQueued",
                                          player |-> caller, stake |-> stake ])
                ELSE /\ matches' = activated_match(m, caller)
                     /\ rounds' = baked_rounds(m, caller, c)
                     /\ last' = Outcome("start_match", caller, stake, 0, <<>>, OK,
                                        NotCalled,
                                        [ name |-> "MatchStarted",
                                          player_a |-> m.player_a,
                                          player_b |-> caller,
                                          stake |-> m.stake ])

-----------------------------------------------------------------------------
(* submit_reveal *)

\* The last four felts of the credential: chair, trap1, trap2, trap3.
Hints(proof_with_hints) ==
    LET len == Len(proof_with_hints)
    IN  [ chair |-> proof_with_hints[len - 3], trap1 |-> proof_with_hints[len - 2],
          trap2 |-> proof_with_hints[len - 1], trap3 |-> proof_with_hints[len] ]

FitsU8(x) == x >= 0 /\ x <= 255

\* The first failing check of the reveal's validation (before the verifier is
\* called), in the order of the code, or OK.
reveal_validation_error(proof_with_hints) ==
    IF ~(Len(proof_with_hints) >= 4) THEN ERROR_INVALID_PROOF
    ELSE LET h == Hints(proof_with_hints)
         IN  IF ~(FitsU8(h.chair) /\ FitsU8(h.trap1) /\ FitsU8(h.trap2) /\ FitsU8(h.trap3))
                THEN ERROR_U8
             ELSE IF ~(h.chair >= 1 /\ h.chair <= CHAIRS) THEN ERROR_INVALID_POSITION
             ELSE IF ~(h.trap1 >= 1 /\ h.trap1 <= CHAIRS) THEN ERROR_INVALID_TRAPS
             ELSE IF ~(h.trap2 >= 1 /\ h.trap2 <= CHAIRS) THEN ERROR_INVALID_TRAPS
             ELSE IF ~(h.trap3 >= 1 /\ h.trap3 <= CHAIRS) THEN ERROR_INVALID_TRAPS
             ELSE IF ~(h.trap1 # h.trap2 /\ h.trap1 # h.trap3 /\ h.trap2 # h.trap3)
                THEN ERROR_INVALID_TRAPS
             ELSE IF ~(h.chair # h.trap1 /\ h.chair # h.trap2 /\ h.chair # h.trap3)
                THEN ERROR_INVALID_TRAPS
             ELSE OK

\* The check that this caller has not yet revealed this round.
already_revealed(r, is_player_a) ==
    IF is_player_a THEN r.chair_a # 0 ELSE r.chair_b # 0

\* What the code makes of the verifier call: the syscall result is unwrapped
\* (a revert propagates) and the returned value is dropped.
verifier_error(verdict) ==
    IF verdict = VerdictRevert THEN ERROR_VERIFIER ELSE OK

\* The first failing check of submit_reveal, in the order of the code, or OK.
submit_reveal_error(caller, round, proof_with_hints) ==
    LET m == matches
        is_player_a == caller = m.player_a
        is_player_b == caller = m.player_b
    IN  IF ~MatchReadable THEN ERROR_STORE_READ
        ELSE IF m.state # "Active" THEN ERROR_WRONG_STATE
        ELSE IF ~(round >= 1 /\ round <= 3) THEN ERROR_WRONG_STATE
        ELSE IF ~(is_player_a \/ is_player_b) THEN ERROR_NOT_PLAYER
        ELSE IF ~RoundReadable(round) THEN ERROR_STORE_READ
        ELSE IF already_revealed(ReadRound(round), is_player_a) THEN ERROR_ALREADY_REVEALED
        ELSE IF reveal_validation_error(proof_with_hints) # OK
            THEN reveal_validation_error(proof_with_hints)
        ELSE verifier_error(VerifierVerdict(proof_with_hints))

\* Whether the call gets as far as calling the verifier.
verifier_called(caller, round, proof_with_hints) ==
    submit_reveal_error(caller, round, proof_with_hints) \in {OK, ERROR_VERIFIER}

\* new_state of submit_reveal
reveal_state(r, is_player_a) ==
    IF is_player_a
    THEN IF r.state = "RevealedB" THEN "Settled" ELSE "RevealedA"
    ELSE IF r.state = "RevealedA" THEN "Settled" ELSE "RevealedB"

\* updated_round of submit_reveal
revealed_round(r, is_player_a, h) ==
    IF is_player_a
    THEN [ r EXCEPT !.chair_a = h.chair, !.trap1_a = h.trap1, !.trap2_a = h.trap2,
                    !.trap3_a = h.trap3, !.state = reveal_state(r, is_player_a) ]
    ELSE [ r EXCEPT !.chair_b = h.chair, !.trap1_b = h.trap1, !.trap2_b = h.trap2,
                    !.trap3_b = h.trap3, !.state = reveal_state(r, is_player_a) ]

submit_reveal(caller, round, proof_with_hints) ==
    LET m == matches
        err == submit_reveal_error(caller, round, proof_with_hints)
        verdict == IF verifier_called(caller, round, proof_with_hints)
                   THEN VerifierVerdict(proof_with_hints) ELSE NotCalled
    IN  IF err # OK
        THEN /\ UNCHANGED <<store, ledger>>
             /\ last' = Outcome("submit_reveal", caller, 0, round, proof_with_hints,
                                err, verdict, NoEvent)
        ELSE /\ rounds' = [ rounds EXCEPT ![round] =
                              revealed_round(rounds[round], caller = m.player_a,
                                             Hints(proof_with_hints)) ]
             /\ UNCHANGED <<matches, commitments, ledger>>
             /\ last' = Outcome("submit_reveal", caller, 0, round, proof_with_hints,
                                OK, verdict,
                                [ name |-> "RevealSubmitted", round |-> round,
                                  player |-> caller,
                                  chair |-> Hints(proof_with_hints).chair ])

-----------------------------------------------------------------------------
(* settle_round *)

\* The first failing check of settle_round, in the order of the code, or OK.
\* settle_round does not read the caller's address.
settle_round_error(caller, round) ==
    LET m == matches
        r == ReadRound(round)
    IN  IF ~MatchReadable THEN ERROR_STORE_READ
        ELSE IF m.state # "Active" THEN ERROR_WRONG_STATE
        ELSE IF ~RoundReadable(round) THEN ERROR_STORE_READ
        ELSE IF r.state # "Settled" THEN ERROR_ROUND_NOT_READY
        ELSE IF ~(r.score_a = 0 /\ r.score_b = 0) THEN ERROR_WRONG_STATE
        ELSE OK

\* calculate_round_score on the round's revealed values: each player's own
\* chair against the opponent's traps.
round_score(r) ==
    calculate_round_score(r.chair_a, r.trap1_b, r.trap2_b, r.trap3_b,
                          r.chair_b, r.trap1_a, r.trap2_a, r.trap3_a)

\* updated_round of settle_round
scored_round(r) ==
    [ r EXCEPT !.score_a = round_score(r)[1], !.score_b = round_score(r)[2] ]

\* updated_match of settle_round
scored_match(m, round, score) ==
    [ m EXCEPT !.score_a = m.score_a + score[1], !.score_b = m.score_b + score[2],
               !.current_round = round + 1 ]

settle_round(caller, round) ==
    LET m == matches
        err == settle_round_error(caller, round)
    IN  IF err # OK
        THEN /\ UNCHANGED <<store, ledger>>
             /\ last' = Outcome("settle_round", caller, 0, round, <<>>, err,
                                NotCalled, NoEvent)
        ELSE LET r == rounds[round]
                 score == round_score(r)
                 updated == scored_match(m, round, score)
             IN  /\ rounds' = [rounds EXCEPT ![round] = scored_round(r)]
                 /\ matches' = updated
                 /\ UNCHANGED <<commitments, ledger>>
                 /\ last' = Outcome("settle_round", caller, 0, round, <<>>, OK,
                                    NotCalled,
                                    [ name |-> "RoundSettled", round |-> round,
                                      score_a |-> score[1], score_b |-> score[2],
                                      split_a_bps |->
                                          SplitBps(updated.score_a, updated.score_b) ])

-----------------------------------------------------------------------------
(* settle_match *)

\* Faulty variant of match_split: gross_b is computed from score_b by its own
\* truncating division instead of as the remainder of the pot.
match_split_two_divisions(stake, score_a, score_b) ==
    LET total_score == score_a + score_b
        total_pot == stake * 2
        split_a_bps == SplitBps(score_a, score_b)
        is_close == split_a_bps >= 4500 /\ split_a_bps <= 5500
    IN  IF total_score = 0
        THEN LET fee_each == total_pot \div 200
             IN  [ gross_a |-> total_pot \div 2, gross_b |-> total_pot \div 2,
                   debit_a |-> fee_each, debit_b |-> fee_each, fee |-> fee_each * 2,
                   tier |-> "tie", split_a_bps |-> split_a_bps ]
        ELSE LET fee_each == total_pot \div 200
                 fee == total_pot \div 100
                 gross_a == (total_pot * score_a) \div total_score
                 gross_b == (total_pot * score_b) \div total_score
             IN  IF is_close
                 THEN [ gross_a |-> gross_a, gross_b |-> gross_b,
                        debit_a |-> fee_each, debit_b |-> fee_each, fee |-> fee_each * 2,
                        tier |-> "close", split_a_bps |-> split_a_bps ]
                 ELSE [ gross_a |-> gross_a, gross_b |-> gross_b,
                        debit_a |-> IF score_a > score_b THEN fee ELSE 0,
                        debit_b |-> IF score_a > score_b THEN 0 ELSE fee, fee |-> fee,
                        tier |-> "decisive", split_a_bps |-> split_a_bps ]

\* Faulty variant of match_split: the close tier excludes its two end points.
match_split_strict_bounds(stake, score_a, score_b) ==
    LET total_score == score_a + score_b
        total_pot == stake * 2
        split_a_bps == SplitBps(score_a, score_b)
        is_close == split_a_bps > 4500 /\ split_a_bps < 5500
    IN  IF total_score = 0
        THEN LET fee_each == total_pot \div 200
             IN  [ gross_a |-> total_pot \div 2, gross_b |-> total_pot \div 2,
                   debit_a |-> fee_each, debit_b |-> fee_each, fee |-> fee_each * 2,
                   tier |-> "tie", split_a_bps |-> split_a_bps ]
        ELSE IF is_close
        THEN LET fee_each == total_pot \div 200
                 gross_a == (total_pot * score_a) \div total_score
             IN  [ gross_a |-> gross_a, gross_b |-> total_pot - gross_a,
                   debit_a |-> fee_each, debit_b |-> fee_each, fee |-> fee_each * 2,
                   tier |-> "close", split_a_bps |-> split_a_bps ]
        ELSE LET fee == total_pot \div 100
                 gross_a == (total_pot * score_a) \div total_score
             IN  [ gross_a |-> gross_a, gross_b |-> total_pot - gross_a,
                   debit_a |-> IF score_a > score_b THEN fee ELSE 0,
                   debit_b |-> IF score_a > score_b THEN 0 ELSE fee, fee |-> fee,
                   tier |-> "decisive", split_a_bps |-> split_a_bps ]

\* Faulty variant of match_split: the decisive fee is debited from the side
\* with the lower score.
match_split_fee_from_loser(stake, score_a, score_b) ==
    LET total_score == score_a + score_b
        total_pot == stake * 2
        split_a_bps == SplitBps(score_a, score_b)
        is_close == split_a_bps >= 4500 /\ split_a_bps <= 5500
    IN  IF total_score = 0
        THEN LET fee_each == total_pot \div 200
             IN  [ gross_a |-> total_pot \div 2, gross_b |-> total_pot \div 2,
                   debit_a |-> fee_each, debit_b |-> fee_each, fee |-> fee_each * 2,
                   tier |-> "tie", split_a_bps |-> split_a_bps ]
        ELSE IF is_close
        THEN LET fee_each == total_pot \div 200
                 gross_a == (total_pot * score_a) \div total_score
             IN  [ gross_a |-> gross_a, gross_b |-> total_pot - gross_a,
                   debit_a |-> fee_each, debit_b |-> fee_each, fee |-> fee_each * 2,
                   tier |-> "close", split_a_bps |-> split_a_bps ]
        ELSE LET fee == total_pot \div 100
                 gross_a == (total_pot * score_a) \div total_score
             IN  [ gross_a |-> gross_a, gross_b |-> total_pot - gross_a,
                   debit_a |-> IF score_a > score_b THEN 0 ELSE fee,
                   debit_b |-> IF score_a > score_b THEN fee ELSE 0, fee |-> fee,
                   tier |-> "decisive", split_a_bps |-> split_a_bps ]

\* Faulty variant of match_split: a tie pays the decisive fee, half from
\* each side.
match_split_tie_full_fee(stake, score_a, score_b) ==
    LET total_score == score_a + score_b
        total_pot == stake * 2
        split_a_bps == SplitBps(score_a, score_b)
        is_close == split_a_bps >= 4500 /\ split_a_bps <= 5500
    IN  IF total_score = 0
        THEN LET fee_each == total_pot \div 100
             IN  [ gross_a |-> total_pot \div 2, gross_b |-> total_pot \div 2,
                   debit_a |-> fee_each, debit_b |-> fee_each, fee |-> fee_each * 2,
                   tier |-> "tie", split_a_bps |-> split_a_bps ]
        ELSE IF is_close
        THEN LET fee_each == total_pot \div 200
                 gross_a == (total_pot * score_a) \div total_score
             IN  [ gross_a |-> gross_a, gross_b |-> total_pot - gross_a,
                   debit_a |-> fee_each, debit_b |-> fee_each, fee |-> fee_each * 2,
                   tier |-> "close", split_a_bps |-> split_a_bps ]
        ELSE LET fee == total_pot \div 100
                 gross_a == (total_pot * score_a) \div total_score
             IN  [ gross_a |-> gross_a, gross_b |-> total_pot - gross_a,
                   debit_a |-> IF score_a > score_b THEN fee ELSE 0,
                   debit_b |-> IF score_a > score_b THEN 0 ELSE fee, fee |-> fee,
                   tier |-> "decisive", split_a_bps |-> split_a_bps ]

\* Faulty variant of match_split: in the decisive tier the fee is taken from
\* each side.
match_split_decisive_fee_from_both(stake, score_a, score_b) ==
    LET total_score == score_a + score_b
        total_pot == stake * 2
        split_a_bps == SplitBps(score_a, score_b)
        is_close == split_a_bps >= 4500 /\ split_a_bps <= 5500
    IN  IF total_score = 0
        THEN LET fee_each == total_pot \div 200
             IN  [ gross_a |-> total_pot \div 2, gross_b |-> total_pot \div 2,
                   debit_a |-> fee_each, debit_b |-> fee_each, fee |-> fee_each * 2,
                   tier |-> "tie", split_a_bps |-> split_a_bps ]
        ELSE IF is_close
        THEN LET fee_each == total_pot \div 200
                 gross_a == (total_pot * score_a) \div total_score
             IN  [ gross_a |-> gross_a, gross_b |-> total_pot - gross_a,
                   debit_a |-> fee_each, debit_b |-> fee_each, fee |-> fee_each * 2,
                   tier |-> "close", split_a_bps |-> split_a_bps ]
        ELSE LET fee == total_pot \div 100
                 gross_a == (total_pot * score_a) \div total_score
             IN  [ gross_a |-> gross_a, gross_b |-> total_pot - gross_a,
                   debit_a |-> fee, debit_b |-> fee, fee |-> fee * 2,
                   tier |-> "decisive", split_a_bps |-> split_a_bps ]

\* The gross shares and the fee debited from each side, by fee tier.
match_split(stake, score_a, score_b) ==
    LET total_score == score_a + score_b
        total_pot == stake * 2
        split_a_bps == SplitBps(score_a, score_b)
        is_close == split_a_bps >= 4500 /\ split_a_bps <= 5500
    IN  IF total_score = 0
        THEN LET fee_each == total_pot \div 200
             IN  [ gross_a |-> total_pot \div 2, gross_b |-> total_pot \div 2,
                   debit_a |-> fee_each, debit_b |-> fee_each, fee |-> fee_each * 2,
                   tier |-> "tie", split_a_bps |-> split_a_bps ]
        ELSE IF is_close
        THEN LET fee_each == total_pot \div 200
                 gross_a == (total_pot * score_a) \div total_score
             IN  [ gross_a |-> gross_a, gross_b |-> total_pot - gross_a,
                   debit_a |-> fee_each, debit_b |-> fee_each, fee |-> fee_each * 2,
                   tier |-> "close", split_a_bps |-> split_a_bps ]
        ELSE LET fee == total_pot \div 100
                 gross_a == (total_pot * score_a) \div total_score
             IN  [ gross_a |-> gross_a, gross_b |-> total_pot - gross_a,
                   debit_a |-> IF score_a > score_b THEN fee ELSE 0,
                   debit_b |-> IF score_a > score_b THEN 0 ELSE fee, fee |-> fee,
                   tier |-> "decisive", split_a_bps |-> split_a_bps ]

\* (payout_a, payout_b, fee) of settle_match; the u256 subtractions must not underflow.
match_payouts(stake, score_a, score_b) ==
    LET s == match_split(stake, score_a, score_b)
    IN  [ ok |-> s.gross_a >= s.debit_a /\ s.gross_b >= s.debit_b,
          payout_a |-> s.gross_a - s.debit_a, payout_b |-> s.gross_b - s.debit_b,
          fee |-> s.fee, split_a_bps |-> s.split_a_bps, tier |-> s.tier ]

\* The guard on round 3 in settle_match.
round3_settled(r3) == r3.state = "Settled" /\ r3.score_a + r3.score_b > 0

\* The first failing check of settle_match, in the order of the code, or OK.
\* settle_match does not read the caller's address.
settle_match_error(caller) ==
    LET m == matches
        p == match_payouts(m.stake, m.score_a, m.score_b)
    IN  IF ~MatchReadable THEN ERROR_STORE_READ
        ELSE IF m.state # "Active" THEN ERROR_WRONG_STATE
        ELSE IF ~RoundReadable(3) THEN ERROR_STORE_READ
        ELSE IF ~round3_settled(ReadRound(3)) THEN ERROR_ROUND_NOT_SETTLED
        ELSE IF ~p.ok THEN ERROR_SUB
        ELSE IF custody < p.payout_a + p.payout_b THEN ERROR_LEDGER
        ELSE OK

\* finished of settle_match
finished_match(m) == [m EXCEPT !.state = "Finished", !.current_round = 3]

\* token.transfer(player_a, payout_a) and token.transfer(player_b, payout_b)
paid_balances(m, payout_a, payout_b) ==
    [ c \in DOMAIN balances |->
        balances[c] + (IF c = m.player_a THEN payout_a ELSE 0)
                    + (IF c = m.player_b THEN payout_b ELSE 0) ]

settle_match(caller) ==
    LET m == matches
        err == settle_match_error(caller)
        p == match_payouts(m.stake, m.score_a, m.score_b)
    IN  IF err # OK
        THEN /\ UNCHANGED <<store, ledger>>
             /\ last' = Outcome("settle_match", caller, 0, 0, <<>>, err,
                                NotCalled, NoEvent)
        ELSE /\ balances' = paid_balances(m, p.payout_a, p.payout_b)
             /\ custody' = custody - (p.payout_a + p.payout_b)
             /\ matches' = finished_match(m)
             /\ UNCHANGED <<rounds, commitments>>
             /\ last' = Outcome("settle_match", caller, 0, 0, <<>>, OK, NotCalled,
                                [ name |-> "MatchFinished",
                                  payout_a |-> p.payout_a, payout_b |-> p.payout_b,
                                  fee |-> p.fee, split_a_bps |-> p.split_a_bps ])

-----------------------------------------------------------------------------
(* Views: each returns the storage read; the read of a Match or a Round    *)
(* fails on a slot that was never written, the read of a commitment (a     *)
(* felt252) returns 0 there.                                               *)

get_match ==
    IF MatchReadable THEN [error |-> OK, value |-> matches]
    ELSE [error |-> ERROR_STORE_READ]

get_round(round) ==
    IF RoundReadable(round) THEN [error |-> OK, value |-> ReadRound(round)]
    ELSE [error |-> ERROR_STORE_READ]

get_commitment(player, round) ==
    [ error |-> OK,
      value |-> IF <<player, round>> \in DOMAIN commitments
                THEN commitments[<<player, round>>] ELSE 0 ]

-----------------------------------------------------------------------------
(* The contract *)

NoCalc == [done |-> FALSE, stake |-> 0, score_a |-> 0, score_b |-> 0]

InitContract ==
    /\ matches = EmptyMatch
    /\ rounds = [r \in 1..ROUNDS |-> UnwrittenRound]
    /\ commitments = [k \in Callers \X (1..ROUNDS) |-> 0]
    /\ balances = [c \in Callers |-> InitialBalance(c)]
    /\ custody = OtherCustody
    /\ last = Outcome("constructor", ZeroAddress, 0, 0, <<>>, OK, NotCalled, NoEvent)

Init == InitContract /\ calc = NoCalc

StartMatch ==
    /\ \E caller \in Callers, stake \in Stakes :
          start_match(caller, stake, CommitmentsOf(caller))
    /\ UNCHANGED calc

SubmitReveal ==
    /\ \E caller \in Callers, round \in RoundArgs, p \in AllPayloads :
          submit_reveal(caller, round, p)
    /\ UNCHANGED calc

SettleRound ==
    /\ \E caller \in Callers, round \in RoundArgs : settle_round(caller, round)
    /\ UNCHANGED calc

SettleMatch ==
    /\ \E caller \in Callers : settle_match(caller)
    /\ UNCHANGED calc

Next == StartMatch \/ SubmitReveal \/ SettleRound \/ SettleMatch

Spec == Init /\ [][Next]_vars

-----------------------------------------------------------------------------
(* The settlement arithmetic of settle_match as a pure function: the stake *)
(* and the two cumulative scores are drawn from bounded sets and           *)
(* match_payouts is applied to them.                                       *)

MaxSmallStake == 3

MaxScore == 48

PayoutStakes == (1..MaxSmallStake) \cup {99, 100, 101, 150, 250, 1000003}

\* Cumulative scores at and next to the ends of the close tier (split_a_bps
\* 4500, 5500, 5501, 4498 and, beyond what three rounds can add up to, 4499),
\* and a decisive pair.
BoundaryScores ==
    { <<9, 11>>, <<11, 9>>, <<148, 121>>, <<121, 148>>, <<229, 280>>, <<84, 36>>, <<36, 84>> }

PayoutScores == ((0..MaxScore) \X (0..MaxScore)) \cup BoundaryScores

InitPayout ==
    /\ InitContract
    /\ calc \in { [ done |-> FALSE, stake |-> st, score_a |-> sc[1], score_b |-> sc[2] ] :
                     st \in PayoutStakes, sc \in PayoutScores }

ComputePayout ==
    /\ ~calc.done
    /\ calc' = [ done |-> TRUE, stake |-> calc.stake, score_a |-> calc.score_a,
                 score_b |-> calc.score_b,
                 out |-> match_payouts(calc.stake, calc.score_a, calc.score_b) ]
    /\ UNCHANGED <<store, ledger, last>>

SpecPayout == InitPayout /\ [][ComputePayout]_vars

-----------------------------------------------------------------------------
(* calculate_round_score as a pure function: the two chairs and the two     *)
(* trap triples are drawn from bounded sets and the function is applied.    *)

\* The trap triples drawn, for either player.
ScoreTraps ==
    { <<1, 2, 3>>, <<4, 6, 7>>, <<5, 6, 7>>, <<1, 2, 9>>, <<12, 2, 3>>, <<8, 11, 12>> }

InitScore ==
    /\ InitContract
    /\ calc \in [ done : {FALSE}, chair_a : 1..CHAIRS, traps_a : ScoreTraps,
                   chair_b : 1..CHAIRS, traps_b : ScoreTraps ]

ComputeScore ==
    /\ ~calc.done
    /\ calc' = [ done |-> TRUE, chair_a |-> calc.chair_a, traps_a |-> calc.traps_a,
                 chair_b |-> calc.chair_b, traps_b |-> calc.traps_b,
                 out |-> calculate_round_score(
                             calc.chair_a, calc.traps_b[1], calc.traps_b[2], calc.traps_b[3],
                             calc.chair_b, calc.traps_a[1], calc.traps_a[2], calc.traps_a[3]) ]
    /\ UNCHANGED <<store, ledger, last>>

SpecScore == InitScore /\ [][ComputeScore]_vars

-----------------------------------------------------------------------------
(* Properties *)

Created == matches.player_a # ZeroAddress

Scored(r) == rounds[r].score_a # 0 \/ rounds[r].score_b # 0

\* C2: whenever the settlement computation succeeds (no subtraction
\* underflows), payout_a + payout_b + fee = total_pot = 2 * stake, in the tie,
\* the close and the decisive tier.
Thm_C2_payouts_conserve_pot ==
    (calc.done /\ calc.out.ok) =>
        calc.out.payout_a + calc.out.payout_b + calc.out.fee = 2 * calc.stake

\* C2 witnesses: a close-tier settlement whose proportional share is truncated
\* and whose fee is not zero.
Wit_C2_close_truncated ==
    /\ calc.done /\ calc.out.ok
    /\ calc.out.tier = "close"
    /\ calc.out.fee > 0
    /\ (2 * calc.stake * calc.score_a) % (calc.score_a + calc.score_b) # 0

\* The elements of a trap triple.
TrapSet(t) == {t[1], t[2], t[3]}

\* C22: score_a = chair_a * (1 if chair_a is one of B's traps, else 4)
\* + (32 if chair_b is one of A's traps, else 0), and symmetrically for
\* score_b; chair 8 traps {1,2,3} against chair 5 traps {4,6,7} gives
\* (32, 20), chair 3 traps {5,6,7} against chair 5 traps {1,2,9} gives (44, 5).
Thm_C22_round_score_formula ==
    calc.done =>
        LET a_hit == calc.chair_a \in TrapSet(calc.traps_b)
            b_hit == calc.chair_b \in TrapSet(calc.traps_a)
        IN  /\ calc.out[1] = calc.chair_a * (IF a_hit THEN 1 ELSE 4) + (IF b_hit THEN 32 ELSE 0)
            /\ calc.out[2] = calc.chair_b * (IF b_hit THEN 1 ELSE 4) + (IF a_hit THEN 32 ELSE 0)
            /\ ( /\ calc.chair_a = 8 /\ calc.traps_a = <<1, 2, 3>>
                 /\ calc.chair_b = 5 /\ calc.traps_b = <<4, 6, 7>> ) => calc.out = <<32, 20>>
            /\ ( /\ calc.chair_a = 3 /\ calc.traps_a = <<5, 6, 7>>
                 /\ calc.chair_b = 5 /\ calc.traps_b = <<1, 2, 9>> ) => calc.out = <<44, 5>>

\* C22 witness: both players are trapped, so each has the trapped scale and
\* the bonus at once.
Wit_C22_both_trapped ==
    /\ calc.done
    /\ calc.chair_a \in TrapSet(calc.traps_b)
    /\ calc.chair_b \in TrapSet(calc.traps_a)
    /\ calc.out = <<calc.chair_a + 32, calc.chair_b + 32>>

\* total_pot of the settlement computation drawn.
CalcPot == 2 * calc.stake

\* floor(score_a * 10000 / total), 5000 when the total is 0.
CalcSplit ==
    IF calc.score_a + calc.score_b = 0 THEN 5000
    ELSE (calc.score_a * 10000) \div (calc.score_a + calc.score_b)

\* A's gross share: half the pot on a zero total, else floor(pot * score_a / total).
CalcGrossA ==
    IF calc.score_a + calc.score_b = 0 THEN CalcPot \div 2
    ELSE (CalcPot * calc.score_a) \div (calc.score_a + calc.score_b)

\* C23: the close-game fee (pot/200 from each side) is used iff
\* 4500 <= split_a_bps <= 5500, otherwise the decisive fee (pot/100 from one
\* side): 4500 and 5500 are close, 4499 and 5501 decisive.
Thm_C23_fee_tier_by_split ==
    (calc.done /\ calc.out.ok) =>
        /\ calc.out.split_a_bps = CalcSplit
        /\ IF CalcSplit >= 4500 /\ CalcSplit <= 5500
           THEN /\ calc.out.tier \in {"tie", "close"}
                /\ calc.out.fee = 2 * (CalcPot \div 200)
                /\ calc.out.payout_a = CalcGrossA - CalcPot \div 200
                /\ calc.out.payout_b = (CalcPot - CalcGrossA) - CalcPot \div 200
           ELSE /\ calc.out.tier = "decisive"
                /\ calc.out.fee = CalcPot \div 100
                /\ calc.out.payout_a + calc.out.payout_b = CalcPot - CalcPot \div 100
                /\ calc.out.payout_a = CalcGrossA \/ calc.out.payout_b = CalcPot - CalcGrossA
        /\ CalcSplit \in {4500, 5500} => calc.out.tier = "close"
        /\ CalcSplit \in {4499, 5501} => calc.out.tier = "decisive"

\* C23 witness: split_a_bps is exactly 4500 on a stake whose two fees differ,
\* and the close-game fee is charged.
Wit_C23_split_4500_is_close ==
    /\ calc.done /\ calc.out.ok
    /\ calc.out.split_a_bps = 4500
    /\ CalcPot \div 100 # 2 * (CalcPot \div 200)
    /\ calc.out.fee = 2 * (CalcPot \div 200)

\* C24: in the decisive tier the fee total_pot/100 is debited from the side
\* with the strictly higher cumulative score and the other side is paid its
\* full gross share; 84 against 36 gives split_a_bps 7000 with the fee taken
\* from A and B paid total_pot - floor(total_pot * 84 / 120).
Thm_C24_decisive_fee_from_winner ==
    (calc.done /\ calc.out.ok /\ ~(CalcSplit >= 4500 /\ CalcSplit <= 5500)) =>
        /\ calc.score_a # calc.score_b
        /\ calc.out.fee = CalcPot \div 100
        /\ calc.score_a > calc.score_b =>
                /\ calc.out.payout_a = CalcGrossA - CalcPot \div 100
                /\ calc.out.payout_b = CalcPot - CalcGrossA
        /\ calc.score_b > calc.score_a =>
                /\ calc.out.payout_a = CalcGrossA
                /\ calc.out.payout_b = (CalcPot - CalcGrossA) - CalcPot \div 100
        /\ (calc.score_a = 84 /\ calc.score_b = 36) =>
                /\ calc.out.split_a_bps = 7000
                /\ calc.out.payout_b = CalcPot - (CalcPot * 84) \div 120

\* C24 witness: 84 against 36 on a stake of 100: A is paid 140 - 2, B 60.
Wit_C24_scores_84_36 ==
    /\ calc.done /\ calc.out.ok
    /\ calc.stake = 100 /\ calc.score_a = 84 /\ calc.score_b = 36
    /\ calc.out.payout_a = 138 /\ calc.out.payout_b = 60 /\ calc.out.fee = 2

\* C25: on a cumulative total of 0 both players are paid
\* total_pot/2 - total_pot/200 and the fee is 2 * (total_pot/200).
Thm_C25_tie_symmetric ==
    (calc.done /\ calc.score_a + calc.score_b = 0) =>
        /\ calc.out.ok
        /\ calc.out.payout_a = CalcPot \div 2 - CalcPot \div 200
        /\ calc.out.payout_b = calc.out.payout_a
        /\ calc.out.fee = 2 * (CalcPot \div 200)
        /\ calc.out.split_a_bps = 5000

\* C25 witness: a zero total on a stake of 250: 248 each, fee 4 (not 5).
Wit_C25_tie_on_250 ==
    /\ calc.done
    /\ calc.score_a = 0 /\ calc.score_b = 0
    /\ calc.stake = 250
    /\ calc.out.payout_a = 248 /\ calc.out.payout_b = 248 /\ calc.out.fee = 4

\* The two players of the match.
Players == {matches.player_a, matches.player_b} \ {ZeroAddress}

\* Error kinds of calls whose only violated precondition is a validation of
\* the arguments: a zero stake on a match that was never created, a round
\* number outside 1..3, a chair equal to one of the traps.
ValidationKinds ==
    { start_match_error(c, 0) : c \in {x \in Callers : ~Created} }
    \cup { submit_reveal_error(c, MaxRoundArg, PayloadP) :
              c \in {x \in Players : matches.state = "Active"} }
    \cup { submit_reveal_error(ca[1], ca[2], PayloadChairTrapped) :
              ca \in { x \in Players \X (1..ROUNDS) :
                         /\ matches.state = "Active"
                         /\ ~already_revealed(rounds[x[2]], x[1] = matches.player_a) } }

\* Error kinds of calls made when the match is not in the status they need:
\* a reveal or a settlement of a match that is not Active (one that was
\* never created included), a start_match of one that is Active or Finished.
StateMismatchKinds ==
    { submit_reveal_error(c, 1, PayloadP) : c \in {x \in Callers : matches.state # "Active"} }
    \cup { settle_round_error(c, 1) : c \in {x \in Callers : matches.state # "Active"} }
    \cup { settle_match_error(c) : c \in {x \in Callers : matches.state # "Active"} }
    \cup { start_match_error(c, matches.stake) :
              c \in {x \in Callers \ Players : matches.state \in {"Active", "Finished"}} }

\* Error kinds of repeated actions: player_a joining their own Waiting match,
\* a second reveal, a second settle_round of a scored round.
DuplicateKinds ==
    { start_match_error(c, matches.stake) :
          c \in {x \in Players : Created /\ matches.state = "Waiting"} }
    \cup { submit_reveal_error(ca[1], ca[2], PayloadQ) :
              ca \in { x \in Players \X (1..ROUNDS) :
                         /\ matches.state = "Active"
                         /\ already_revealed(rounds[x[2]], x[1] = matches.player_a) } }
    \cup { settle_round_error(cr[1], cr[2]) :
              cr \in { x \in Callers \X (1..ROUNDS) :
                         matches.state = "Active" /\ Scored(x[2]) } }

\* Error kinds of calls by a caller who is not a player of the Active match.
AuthorizationKinds ==
    { submit_reveal_error(c, 1, PayloadP) :
          c \in {x \in Callers \ Players : matches.state = "Active"} }

\* C27 as claimed: failures of different classes (validation, state
\* mismatch, duplicate action, authorization) never report the same error
\* kind.
Cex_C27_error_kinds_distinguish_classes ==
    /\ ValidationKinds \cap StateMismatchKinds = {}
    /\ ValidationKinds \cap DuplicateKinds = {}
    /\ ValidationKinds \cap AuthorizationKinds = {}
    /\ StateMismatchKinds \cap DuplicateKinds = {}
    /\ StateMismatchKinds \cap AuthorizationKinds = {}
    /\ DuplicateKinds \cap AuthorizationKinds = {}

\* C28 as claimed: a query of a match that was never created yields the
\* not-found error, not a Match, Round or commitment value.
Cex_C28_query_of_uncreated_match_not_found ==
    ~Created =>
        /\ get_match.error = ERROR_MATCH_NOT_FOUND
        /\ \A round \in RoundArgs : get_round(round).error = ERROR_MATCH_NOT_FOUND
        /\ \A player \in Callers, round \in RoundArgs :
              get_commitment(player, round).error = ERROR_MATCH_NOT_FOUND

\* The stake this match holds in custody.
Locked == custody - OtherCustody

\* C29 as claimed: of the start_match calls racing on a fresh match, each an
\* atomic step, the first to execute (a caller who can pay a positive stake)
\* makes its caller player_a of a Waiting match, the second (a different
\* caller with the same stake) makes its caller player_b of the Active match,
\* every later call fails, and the stake locked is 0, stake and 2 * stake in
\* the three phases.
Cex_C29_start_match_race_serializes ==
    /\ [](Locked = IF ~Created THEN 0
                   ELSE IF matches.state = "Waiting" THEN matches.stake
                   ELSE 2 * matches.stake)
    /\ [](\A caller \in Callers, stake \in Stakes :
            CanLock(caller, stake) =>
                ( start_match_error(caller, stake) = OK <=>
                    \/ ~Created /\ stake > 0
                    \/ /\ Created /\ matches.state = "Waiting"
                       /\ caller # matches.player_a /\ stake = matches.stake ))
    /\ [][ matches' # matches =>
                \/ /\ ~Created
                   /\ matches'.state = "Waiting"
                   /\ matches'.player_a = last'.event.player
                   /\ matches'.player_b = ZeroAddress
                   /\ matches'.stake = last'.event.stake
                \/ /\ Created /\ matches.state = "Waiting"
                   /\ matches'.state = "Active"
                   /\ matches'.player_a = matches.player_a
                   /\ matches'.player_b = last'.event.player_b
                   /\ matches'.player_b # matches.player_a
                   /\ matches'.stake = matches.stake ]_vars

\* The gross shares and debits of the settlement computed in calc.
CalcShares == match_split(calc.stake, calc.score_a, calc.score_b)

\* C38: for every stake > 0 and every pair of cumulative scores, the fee
\* debited from a side is at most that side's gross share, so neither payout
\* subtraction underflows and the settlement computation succeeds.
Thm_C38_fee_within_gross_share ==
    calc.done =>
        /\ calc.stake > 0
        /\ CalcShares.debit_a <= CalcShares.gross_a
        /\ CalcShares.debit_b <= CalcShares.gross_b
        /\ calc.out.ok
        /\ calc.out.payout_a >= 0 /\ calc.out.payout_b >= 0

\* C38 witness: a decisive settlement of scores 1 against 48 on a stake with
\* a fee: the whole fee is debited from the winner, whose gross share covers
\* it, and nothing from the loser, whose share is the smallest drawn.
Wit_C38_winner_covers_fee ==
    /\ calc.done /\ calc.out.ok
    /\ calc.score_a = 1 /\ calc.score_b = 48
    /\ calc.out.tier = "decisive"
    /\ CalcShares.debit_b = calc.out.fee /\ calc.out.fee > 0
    /\ CalcShares.debit_a = 0
    /\ calc.out.payout_b = CalcShares.gross_b - calc.out.fee
    /\ calc.out.payout_a = CalcShares.gross_a

====
